---- MODULE Spec2Model ----
(***************************************************************************)
(* A model of pcbnew_easy.py, the convenience wrapper around the pcbnew    *)
(* scripting API: unit conversion, rotation, the layer name/index tables,  *)
(* the layer-set codec, and the Board / Module / Pad wrappers.             *)
(*                                                                         *)
(* Python values are modelled as follows.                                  *)
(*   - a str or an int used as a dictionary key is a tagged pair           *)
(*     PyStr(s) / PyInt(n), so that a dict lookup compares type and value; *)
(*   - a Python string that is built character by character (the hex       *)
(*     string, the FmtBin string) is a sequence of one-character strings;  *)
(*   - a length in mm given to the Board, Module and Pad wrappers is an    *)
(*     integer count of 0.001 mm (MM_SCALE per mm), so that 0.15 mm is     *)
(*     exact; pcbnew's internal unit is the nanometre (IU_PER_MM per mm);  *)
(*   - an exception is the field raised of a call's outcome; "none" means  *)
(*     the call returned.                                                  *)
(* The pcbnew objects (LSET, BOARD, MODULE, D_PAD, DRAWSEGMENT ...) are    *)
(* the host's; each is modelled by the fields the wrapper sets and reads.  *)
(***************************************************************************)
EXTENDS Integers, Sequences, FiniteSets, TLC

VARIABLES
    layer_dict,     \* module global: layer name -> layer id
    layer_names,    \* module global: layer id -> layer name
    last,           \* name of the last call made into the module
    args,           \* arguments of the last call
    ret,            \* <<v>>: the last call returned v;  <<>>: it returned nothing
    raised,         \* "none", or the exception the last call raised
    layer_list,     \* the list of layers given to the last _to_LayerSet
    hexset,         \* the string the last _to_LayerSet handed to LSET.ParseHex
    lset,           \* <<bits>>: the LSET the last _to_LayerSet returned; <<>>: none
    board,          \* BOARD: the objects added with BOARD.Add, in order
    module,         \* MODULE: the objects added with MODULE.Add, in order
    pad             \* index in module of the D_PAD that the Pad wrapper last
                    \* returned by add_pad wraps; 0 when there is none

vars == <<layer_dict, layer_names, last, args, ret, raised, layer_list,
          hexset,
          lset, board, module, pad>>

---------------------------------------------------------------------------
(* Bounds of the model *)

\* longest list of layers enumerated exhaustively for _to_LayerSet
MaxLayers == 2

\* longest flat sequence, and deepest nesting, given to inch_to_mm / mm_to_inch
MaxLen == 2
MaxDepth == 2

\* most objects added to the board and the module together
MaxItems == 2

\* rotate is given the angles -MaxTurns*90 .. MaxTurns*90, in quarter turns
MaxTurns == 4

---------------------------------------------------------------------------
(* Python values *)

PyStr(s) == <<"str", s>>
PyInt(n) == <<"int", n>>

None == <<>>
Some(v) == <<v>>

Max(S) == CHOOSE m \in S : \A x \in S : x <= m

Range(f) == {f[k] : k \in DOMAIN f}

ToSet(seq) == {seq[i] : i \in 1..Len(seq)}

Returned(v) == [raised |-> "none", value |-> v]
Raise(e) == [raised |-> e, value |-> 0]

---------------------------------------------------------------------------
(* The host's layer enumeration: pcbnew.LAYER_ID_COUNT layer ids, and the  *)
(* name BOARD_GetStandardLayerName gives each.                             *)

LAYER_ID_COUNT == 50

StandardLayerNames ==
    <<"F.Cu",
      "In1.Cu", "In2.Cu", "In3.Cu", "In4.Cu", "In5.Cu", "In6.Cu",
      "In7.Cu", "In8.Cu", "In9.Cu", "In10.Cu", "In11.Cu", "In12.Cu",
      "In13.Cu", "In14.Cu", "In15.Cu", "In16.Cu", "In17.Cu", "In18.Cu",
      "In19.Cu", "In20.Cu", "In21.Cu", "In22.Cu", "In23.Cu", "In24.Cu",
      "In25.Cu", "In26.Cu", "In27.Cu", "In28.Cu", "In29.Cu", "In30.Cu",
      "B.Cu",
      "B.Adhes", "F.Adhes", "B.Paste", "F.Paste", "B.SilkS", "F.SilkS",
      "B.Mask", "F.Mask",
      "Dwgs.User", "Cmts.User", "Eco1.User", "Eco2.User",
      "Edge.Cuts", "Margin",
      "B.CrtYd", "F.CrtYd", "B.Fab", "F.Fab">>

\* pcbnew.BOARD_GetStandardLayerName(n), as a Python str
BOARD_GetStandardLayerName(n) == PyStr(StandardLayerNames[n + 1])

LayerIds == 0..(LAYER_ID_COUNT - 1)

---------------------------------------------------------------------------
(* layer_dict and layer_names, as the two dict comprehensions build them   *)

\* {pcbnew.BOARD_GetStandardLayerName(n):n for n in range(LAYER_ID_COUNT)}:
\* a later n replaces an earlier one under the same key
BuildLayerDictShort ==
    [s \in {BOARD_GetStandardLayerName(n) : n \in 0..(LAYER_ID_COUNT - 2)} |->
        Max({n \in 0..(LAYER_ID_COUNT - 2) : BOARD_GetStandardLayerName(n) = s})]

BuildLayerDict ==
    [s \in {BOARD_GetStandardLayerName(n) : n \in LayerIds} |->
        Max({n \in LayerIds : BOARD_GetStandardLayerName(n) = s})]

\* {s:n for n, s in layer_dict.iteritems()}: n is bound to the key (the
\* name) and s to the value (the id), so the result maps id -> name
BuildLayerNames(dict) ==
    [i \in Range(dict) |-> CHOOSE s \in DOMAIN dict : dict[s] = i]

_get_layer_default(s) ==
    IF s \in DOMAIN layer_dict THEN Returned(layer_dict[s])
    ELSE Returned(0)

\* _get_layer(s): return layer_dict[s]; a key the dict does not hold raises
\* KeyError, whatever its type
_get_layer(s) ==
    IF s \in DOMAIN layer_dict THEN Returned(layer_dict[s])
    ELSE Raise("KeyError")

---------------------------------------------------------------------------
(* The layer-set codec *)

HexDigits == <<"0", "1", "2", "3", "4", "5", "6", "7",
               "8", "9", "a", "b", "c", "d", "e", "f">>

\* minimum field width of the format '{0:013x}'
HexWidth == 13

Bit(bitset, i) == IF i \in bitset THEN 1 ELSE 0

\* value of the hex digit that holds bits 4k .. 4k+3 of the integer
Nibble(bitset, k) ==
    Bit(bitset, 4 * k) + 2 * Bit(bitset, 4 * k + 1)
    + 4 * Bit(bitset, 4 * k + 2) + 8 * Bit(bitset, 4 * k + 3)

\* number of hex digits of the integer without padding ('0' for zero)
HexLen(bitset) == IF bitset = {} THEN 1 ELSE (Max(bitset) \div 4) + 1

FormatHexNoPad(bitset, width) ==
    [p \in 1..HexLen(bitset) |-> HexDigits[Nibble(bitset, HexLen(bitset) - p) + 1]]

\* '{0:0<width>x}'.format(bitset): the integer in lowercase hex, most
\* significant digit first, padded on the left with '0' up to width; never cut
FormatHex(bitset, width) ==
    LET n == IF HexLen(bitset) > width THEN HexLen(bitset) ELSE width
    IN  [p \in 1..n |-> HexDigits[Nibble(bitset, n - p) + 1]]

\* the loop of _to_LayerSet: bitset |= 1 << _get_layer(l) for each l in turn;
\* the first lookup that raises ends the loop and the call.  The integer
\* bitset is the set of its one bits.
RECURSIVE LayerBits(_, _, _)
LayerBits(layers, i, bitset) ==
    IF i > Len(layers) THEN Returned(bitset)
    ELSE LET r == _get_layer(layers[i])
         IN  IF r.raised # "none" THEN Raise(r.raised)
             ELSE LayerBits(layers, i + 1, bitset \cup {r.value})

\* value of one hex character, -1 for any other character
HexValue(c) ==
    IF \E v \in 1..16 : HexDigits[v] = c
    THEN (CHOOSE v \in 1..16 : HexDigits[v] = c) - 1
    ELSE -1

\* pcbnew LSET.ParseHex(str, count): read the hex characters from the last
\* to the first, nibble k giving bits 4k .. 4k+3, bits at or above
\* LAYER_ID_COUNT dropped; stop at the first character that is no hex digit
\* or once LAYER_ID_COUNT bits are read.
RECURSIVE ParseHexFrom(_, _, _, _)
ParseHexFrom(str, pos, nibble_ndx, bits) ==
    IF pos < 1 THEN bits
    ELSE IF str[pos] = "_" THEN ParseHexFrom(str, pos - 1, nibble_ndx, bits)
    ELSE IF HexValue(str[pos]) < 0 THEN bits
    ELSE LET v == HexValue(str[pos])
             new == {4 * nibble_ndx + j : j \in
                        {j \in 0..3 : (v \div (2 ^ j)) % 2 = 1
                                      /\ 4 * nibble_ndx + j < LAYER_ID_COUNT}}
         IN  IF 4 * nibble_ndx + 4 >= LAYER_ID_COUNT THEN bits \cup new
             ELSE ParseHexFrom(str, pos - 1, nibble_ndx + 1, bits \cup new)

ParseHex(str, count) == ParseHexFrom(str, count, 0, {})

\* pcbnew LSET.FmtBin(): the LAYER_ID_COUNT bits, highest first, with '_'
\* between groups of four and '|' between groups of eight
RECURSIVE FmtBinFrom(_, _)
FmtBinFrom(bits, bit) ==
    IF bit < 0 THEN <<>>
    ELSE <<IF bit \in bits THEN "1" ELSE "0">>
         \o (IF bit = 0 THEN <<>>
             ELSE IF bit % 8 = 0 THEN <<"|">>
             ELSE IF bit % 4 = 0 THEN <<"_">>
             ELSE <<>>)
         \o FmtBinFrom(bits, bit - 1)

FmtBin(bits) == FmtBinFrom(bits, LAYER_ID_COUNT - 1)

Reverse(seq) == [i \in 1..Len(seq) |-> seq[Len(seq) + 1 - i]]

IsBinChar(c) == c \in {"0", "1"}

\* _to_LayerSet(layers): [raised, hexset, lset]
_to_LayerSet(layers) ==
    LET b == LayerBits(layers, 1, {})
    IN  IF b.raised # "none"
        THEN [raised |-> b.raised, hexset |-> <<>>, lset |-> None]
        ELSE LET hex == FormatHex(b.value, HexWidth)
             IN  [raised |-> "none", hexset |-> hex,
                  lset |-> Some(ParseHex(hex, Len(hex)))]

_from_LayerSetNoReverse(layerset) ==
    LET mask == SelectSeq(FmtBin(layerset), IsBinChar)
        ids == SelectSeq([i \in 1..Len(mask) |-> i - 1],
                         LAMBDA i : mask[i + 1] = "1")
    IN  IF \A k \in 1..Len(ids) : ids[k] \in DOMAIN layer_names
        THEN Returned([k \in 1..Len(ids) |-> layer_names[ids[k]]])
        ELSE Raise("KeyError")

\* _from_LayerSet(layerset): the tuple of the names of the layers set
_from_LayerSet(layerset) ==
    LET mask == Reverse(SelectSeq(FmtBin(layerset), IsBinChar))
        ids == SelectSeq([i \in 1..Len(mask) |-> i - 1],
                         LAMBDA i : mask[i + 1] = "1")
    IN  IF \A k \in 1..Len(ids) : ids[k] \in DOMAIN layer_names
        THEN Returned([k \in 1..Len(ids) |-> layer_names[ids[k]]])
        ELSE Raise("KeyError")

---------------------------------------------------------------------------
(* The state after the module is imported *)

\* the layers of a D_PAD's default masks: all copper layers are ids 0..31
LayerId(name) == CHOOSE n \in LayerIds : StandardLayerNames[n + 1] = name
AllCuMask == LayerId("F.Cu")..LayerId("B.Cu")
StandardMask == AllCuMask \cup {LayerId("B.Mask"), LayerId("F.Mask")}
SMDMask == {LayerId("F.Cu"), LayerId("F.Paste"), LayerId("F.Mask")}
ConnSMDMask == {LayerId("F.Cu"), LayerId("F.Mask")}
UnplatedHoleMask == AllCuMask \cup {LayerId("B.Mask"), LayerId("F.Mask")}

\* a pcbnew.D_PAD as its constructor leaves it: a standard round pad of
\* 60 mils with a round drill of 30 mils, on the standard mask
NewPad ==
    [cls |-> "D_PAD", Attribute |-> "PAD_STANDARD", Shape |-> "PAD_CIRCLE",
     Size |-> <<1524000, 1524000>>, PadName |-> "", Position |-> <<0, 0>>,
     LayerSet |-> StandardMask, DrillShape |-> "PAD_DRILL_CIRCLE",
     DrillSize |-> <<762000, 762000>>]

Init ==
    /\ layer_dict = BuildLayerDict
    /\ layer_names = BuildLayerNames(layer_dict)
    /\ last = "import"
    /\ args = <<>>
    /\ ret = None
    /\ raised = "none"
    /\ layer_list = <<>>
    /\ hexset = <<>>
    /\ lset = None
    /\ board = <<>>
    /\ module = <<>>
    /\ pad = 0

---------------------------------------------------------------------------
(* Calls of the layer functions.  Each call's outcome replaces the one     *)
(* before it.                                                              *)

\* every key of the table, a name the table does not hold, and a layer id
UnknownName == PyStr("Bogus")

\* the keys that lists of up to MaxLayers entries are drawn from: the lowest
\* id, the two ids of the highest hex digit, and a name the table lacks
ProbeKeys ==
    {BOARD_GetStandardLayerName(n) : n \in {0, LAYER_ID_COUNT - 2, LAYER_ID_COUNT - 1}}
    \cup {UnknownName}

RECURSIVE SeqsUpTo(_, _)
SeqsUpTo(S, n) ==
    IF n = 0 THEN {<<>>}
    ELSE LET shorter == SeqsUpTo(S, n - 1)
         IN  shorter \cup {Append(q, x) : q \in shorter, x \in S}

TableNames == [n \in 1..LAYER_ID_COUNT |-> BOARD_GetStandardLayerName(n - 1)]

\* the lists given to _to_LayerSet: every list of up to MaxLayers probe
\* keys, every single layer, a layer id, every prefix and suffix of the
\* whole table
LayerLists ==
    SeqsUpTo(ProbeKeys, MaxLayers)
    \cup {<<BOARD_GetStandardLayerName(n)>> : n \in LayerIds}
    \cup {<<PyInt(0)>>}
    \cup {SubSeq(TableNames, 1, n) : n \in 1..LAYER_ID_COUNT}
    \cup {SubSeq(TableNames, n, LAYER_ID_COUNT) : n \in 1..LAYER_ID_COUNT}

\* the arguments given to _get_layer: every name of the table, layer ids,
\* an id out of range and a name the table lacks
LayerKeys ==
    {BOARD_GetStandardLayerName(n) : n \in LayerIds}
    \cup {PyInt(n) : n \in {0, 1, LAYER_ID_COUNT - 1, LAYER_ID_COUNT}}
    \cup {UnknownName}

UnchangedTables == UNCHANGED <<layer_dict, layer_names>>
UnchangedHost == UNCHANGED <<board, module, pad>>

Call_get_layer(s) ==
    \E r \in {_get_layer(s)} :
        /\ last' = "_get_layer"
        /\ args' = s
        /\ raised' = r.raised
        /\ ret' = IF r.raised = "none" THEN Some(r.value) ELSE None
        /\ layer_list' = <<>>
        /\ hexset' = <<>>
        /\ lset' = None
        /\ UnchangedTables /\ UnchangedHost

Call_to_LayerSet(ls) ==
    \E r \in {_to_LayerSet(ls)} :
        /\ last' = "_to_LayerSet"
        /\ args' = <<>>
        /\ layer_list' = ls
        /\ raised' = r.raised
        /\ hexset' = r.hexset
        /\ lset' = r.lset
        /\ ret' = r.lset
        /\ UnchangedTables /\ UnchangedHost

\* _from_LayerSet(lset), of the LSET the last _to_LayerSet returned
Call_from_LayerSet ==
    /\ lset # None
    /\ last \in {"_to_LayerSet", "_from_LayerSet"}
    /\ \E r \in {_from_LayerSet(lset[1])} :
           /\ last' = "_from_LayerSet"
           /\ raised' = r.raised
           /\ ret' = IF r.raised = "none" THEN Some(r.value) ELSE None
    /\ UNCHANGED <<args, layer_list, hexset, lset>>
    /\ UnchangedTables /\ UnchangedHost

NextLayers ==
    \/ \E s \in LayerKeys : Call_get_layer(s)
    \/ \E ls \in LayerLists : Call_to_LayerSet(ls)
    \/ Call_from_LayerSet

SpecLayers == Init /\ [][NextLayers]_vars

---------------------------------------------------------------------------
(* Claims about the layer tables and the layer-set codec *)

\* C1: decoding (_from_LayerSet) the layer set that _to_LayerSet built from
\* a list of layer names returns exactly the set of names of the list,
\* whatever their order, duplicates and layer ids, the highest included.
C1_RoundTrip ==
    last = "_from_LayerSet" =>
        /\ raised = "none"
        /\ ToSet(ret[1]) = ToSet(layer_list)

C1_Witness ==
    /\ last = "_from_LayerSet"
    /\ layer_list = <<PyStr("F.Fab"), PyStr("F.Cu")>>
    /\ ret = Some(<<PyStr("F.Cu"), PyStr("F.Fab")>>)

\* C2: the hex string _to_LayerSet builds always has ceil(LAYER_ID_COUNT/4)
\* digits, and is all zeros for the empty list.
C2_FixedWidth ==
    (last = "_to_LayerSet" /\ raised = "none") =>
        /\ Len(hexset) = (LAYER_ID_COUNT + 3) \div 4
        /\ (layer_list = <<>> => \A i \in 1..Len(hexset) : hexset[i] = "0")

C2_Witness ==
    /\ last = "_to_LayerSet"
    /\ layer_list = <<PyStr("F.Fab")>>
    /\ Len(hexset) = 13
    /\ hexset[1] = "2"

\* C3: _get_layer returns a layer id (an integer 0..LAYER_ID_COUNT-1)
\* unchanged, and returns the id of a layer name of the table.
C3_GetLayerIdempotent ==
    last = "_get_layer" =>
        /\ (args[1] = "int" /\ args[2] \in LayerIds) =>
               (raised = "none" /\ ret = Some(args[2]))
        /\ (args \in DOMAIN layer_dict) =>
               (raised = "none" /\ ret = Some(layer_dict[args]))

\* C5: layer_dict and layer_names are inverse bijections between the layer
\* names and the ids 0..LAYER_ID_COUNT-1, and no call changes either.
TablesBijective ==
    /\ DOMAIN layer_names = LayerIds
    /\ Range(layer_dict) = LayerIds
    /\ \A s \in DOMAIN layer_dict : layer_names[layer_dict[s]] = s
    /\ \A i \in DOMAIN layer_names :
           layer_names[i] \in DOMAIN layer_dict /\ layer_dict[layer_names[i]] = i
    /\ \A i, j \in DOMAIN layer_names : layer_names[i] = layer_names[j] => i = j

C5_TablesBijectiveAndFixed ==
    [](TablesBijective) /\ [][UnchangedTables]_vars

C5_Witness ==
    /\ last = "_from_LayerSet"
    /\ Cardinality(DOMAIN layer_dict) = LAYER_ID_COUNT
    /\ layer_names[49] = PyStr("F.Fab")
    /\ layer_dict[PyStr("F.Cu")] = 0

---------------------------------------------------------------------------
(* inch_to_mm, mm_to_inch and rotate.                                      *)
(*                                                                         *)
(* A value handed to the converters is one of                              *)
(*    <<"num", n, d>>   the number n/d, in lowest terms with d > 0         *)
(*    <<"seq", s>>      a list or tuple with the elements s                *)
(*    <<"str", s>>      a str                                              *)
(*    <<"none">>        None                                               *)
(* Numbers are exact rationals: a Python float's rounding is not modelled. *)

Abs(x) == IF x < 0 THEN -x ELSE x

RECURSIVE GCD(_, _)
GCD(a, b) == IF b = 0 THEN a ELSE GCD(b, a % b)

PyNum(n, d) ==
    LET g == GCD(Abs(n), Abs(d))
        s == IF d < 0 THEN -1 ELSE 1
    IN  <<"num", (s * n) \div g, (s * d) \div g>>

PySeq(s) == <<"seq", s>>
PyNone == <<"none">>

\* val * (p/q) for a number val
Times(val, p, q) == PyNum(val[2] * p, val[3] * q)

\* the first exception a list comprehension meets, in element order
FirstRaised(rs) ==
    rs[CHOOSE i \in 1..Len(rs) :
           rs[i].raised # "none" /\ \A j \in 1..(i - 1) : rs[j].raised = "none"].raised

inch_to_mm_flat(val) ==
    IF val[1] = "num" THEN Returned(Times(val, 127, 5))
    ELSE IF val[1] = "seq"
    THEN IF \E i \in 1..Len(val[2]) : val[2][i][1] # "num" THEN Raise("TypeError")
         ELSE Returned(PySeq([i \in 1..Len(val[2]) |-> Times(val[2][i], 127, 5)]))
    ELSE IF val[1] = "str"
    THEN IF val[2] = "" THEN Returned(PySeq(<<>>)) ELSE Raise("RuntimeError")
    ELSE Raise("TypeError")

\* inch_to_mm(val): val * 25.4; a list, tuple or str times a float raises
\* TypeError, and then each element is converted in turn.  A str of one
\* character iterates to itself, so a non-empty str recurses until Python's
\* recursion limit raises RuntimeError; iterating None raises TypeError.
RECURSIVE inch_to_mm(_)
inch_to_mm(val) ==
    IF val[1] = "num" THEN Returned(Times(val, 127, 5))
    ELSE IF val[1] = "seq"
    THEN LET rs == [i \in 1..Len(val[2]) |-> inch_to_mm(val[2][i])]
         IN  IF \E i \in 1..Len(rs) : rs[i].raised # "none"
             THEN Raise(FirstRaised(rs))
             ELSE Returned(PySeq([i \in 1..Len(rs) |-> rs[i].value]))
    ELSE IF val[1] = "str"
    THEN IF val[2] = "" THEN Returned(PySeq(<<>>)) ELSE Raise("RuntimeError")
    ELSE Raise("TypeError")

\* mm_to_inch(val): val / 25.4, element by element in the same way
RECURSIVE mm_to_inch(_)
mm_to_inch(val) ==
    IF val[1] = "num" THEN Returned(Times(val, 5, 127))
    ELSE IF val[1] = "seq"
    THEN LET rs == [i \in 1..Len(val[2]) |-> mm_to_inch(val[2][i])]
         IN  IF \E i \in 1..Len(rs) : rs[i].raised # "none"
             THEN Raise(FirstRaised(rs))
             ELSE Returned(PySeq([i \in 1..Len(rs) |-> rs[i].value]))
    ELSE IF val[1] = "str"
    THEN IF val[2] = "" THEN Returned(PySeq(<<>>)) ELSE Raise("RuntimeError")
    ELSE Raise("TypeError")

\* cos and sin of an angle in degrees that is a multiple of 90, where
\* cmath.exp(math.radians(a)*1j) is exact up to the float's last digits
CosDeg(a) == CASE a % 360 = 0 -> 1 [] a % 360 = 90 -> 0
               [] a % 360 = 180 -> -1 [] a % 360 = 270 -> 0

SinDeg(a) == CASE a % 360 = 0 -> 0 [] a % 360 = 90 -> 1
               [] a % 360 = 180 -> 0 [] a % 360 = 270 -> -1

rotate_clockwise(coord, angle) ==
    <<coord[1] * CosDeg(angle) + coord[2] * SinDeg(angle),
      coord[2] * CosDeg(angle) - coord[1] * SinDeg(angle)>>

\* rotate(coord, angle): (coord[0] + coord[1]*1j) * e^(i*angle), as
\* (real, imag)
rotate(coord, angle) ==
    <<coord[1] * CosDeg(angle) - coord[2] * SinDeg(angle),
      coord[1] * SinDeg(angle) + coord[2] * CosDeg(angle)>>

---------------------------------------------------------------------------
(* Calls of the converters: the argument is drawn at the start, then the   *)
(* functions are applied to it and to each other's results.                *)

NumLeaves == {PyNum(0, 1), PyNum(-3, 2)}
Leaves == NumLeaves \cup {PyNone}

\* every flat sequence of up to MaxLen leaves
FlatValues == {PySeq(s) : s \in SeqsUpTo(Leaves, MaxLen)}

\* one more level of nesting: [v], [v, v] and [v, x] for a number x
Deepen(S) ==
    {PySeq(<<v>>) : v \in S} \cup {PySeq(<<v, v>>) : v \in S}
    \cup {PySeq(<<v, x>>) : v \in S, x \in NumLeaves}

RECURSIVE Nested(_)
Nested(depth) == IF depth <= 1 THEN FlatValues ELSE Deepen(Nested(depth - 1))

ConvValues ==
    Leaves \cup {<<"str", "">>, <<"str", "a">>}
    \cup UNION {Nested(k) : k \in 1..MaxDepth}

Coords == {<<x, y>> : x \in {-2, 0, 1}, y \in {-1, 0, 3}}
Angles == {90 * k : k \in (-MaxTurns)..MaxTurns}

InitConv ==
    /\ layer_dict = BuildLayerDict
    /\ layer_names = BuildLayerNames(layer_dict)
    /\ last = "import"
    /\ args \in {<<"val", v>> : v \in ConvValues}
              \cup {<<"rot", c, a>> : c \in Coords, a \in Angles}
    /\ ret = None
    /\ raised = "none"
    /\ layer_list = <<>>
    /\ hexset = <<>>
    /\ lset = None
    /\ board = <<>>
    /\ module = <<>>
    /\ pad = 0

UnchangedLayerCall == UNCHANGED <<layer_list, hexset, lset>>

Returns(name, r) ==
    /\ last' = name
    /\ raised' = r.raised
    /\ ret' = IF r.raised = "none" THEN Some(r.value) ELSE None

\* inch_to_mm(v)
Call_inch_to_mm ==
    /\ last = "import" /\ args[1] = "val"
    /\ \E r \in {inch_to_mm(args[2])} : Returns("inch_to_mm", r)
    /\ UNCHANGED args
    /\ UnchangedLayerCall /\ UnchangedTables /\ UnchangedHost

\* mm_to_inch(v)
Call_mm_to_inch ==
    /\ last = "import" /\ args[1] = "val"
    /\ \E r \in {mm_to_inch(args[2])} : Returns("mm_to_inch", r)
    /\ UNCHANGED args
    /\ UnchangedLayerCall /\ UnchangedTables /\ UnchangedHost

\* mm_to_inch(inch_to_mm(v)): mm_to_inch of what inch_to_mm returned
Call_mm_to_inch_back ==
    /\ last = "inch_to_mm" /\ raised = "none"
    /\ \E r \in {mm_to_inch(ret[1])} : Returns("mm_to_inch(inch_to_mm)", r)
    /\ UNCHANGED args
    /\ UnchangedLayerCall /\ UnchangedTables /\ UnchangedHost

\* rotate(coord, angle)
Call_rotate ==
    /\ last = "import" /\ args[1] = "rot"
    /\ Returns("rotate", Returned(rotate(args[2], args[3])))
    /\ UNCHANGED args
    /\ UnchangedLayerCall /\ UnchangedTables /\ UnchangedHost

\* rotate(rotate(coord, angle), -angle)
Call_rotate_back ==
    /\ last = "rotate"
    /\ Returns("rotate(rotate)", Returned(rotate(ret[1], -args[3])))
    /\ UNCHANGED args
    /\ UnchangedLayerCall /\ UnchangedTables /\ UnchangedHost

NextConv ==
    \/ Call_inch_to_mm
    \/ Call_mm_to_inch
    \/ Call_mm_to_inch_back
    \/ Call_rotate
    \/ Call_rotate_back

SpecConv == InitConv /\ [][NextConv]_vars

---------------------------------------------------------------------------
(* Claims about the converters *)

\* the nesting shape of a value: its numbers replaced by "x"
RECURSIVE Shape(_)
Shape(val) ==
    IF val[1] = "seq" THEN [i \in 1..Len(val[2]) |-> Shape(val[2][i])] ELSE "x"

\* the leaves of a value, left to right
RECURSIVE Flatten(_)
Flatten(val) ==
    IF val[1] # "seq" THEN <<val>>
    ELSE IF val[2] = <<>> THEN <<>>
    ELSE Flatten(val[2][1]) \o Flatten(PySeq(Tail(val[2])))

AllNumbers(val) == \A i \in 1..Len(Flatten(val)) : Flatten(val)[i][1] = "num"

\* every leaf of out is the leaf of in at the same place times p/q
LeavesScaled(in, out, p, q) ==
    /\ Len(Flatten(out)) = Len(Flatten(in))
    /\ \A i \in 1..Len(Flatten(in)) :
           LET a == Flatten(in)[i]
               b == Flatten(out)[i]
           IN  b[1] = "num" /\ b[2] * a[3] * q = a[2] * p * b[3]

C8_Rotate ==
    /\ last = "rotate" =>
           /\ (args[2] = <<1, 0>> /\ args[3] = 90) => ret[1] = <<0, 1>>
           /\ (args[2] = <<1, 0>> /\ args[3] = 180) => ret[1] = <<-1, 0>>
           /\ args[3] = 90 => ret[1] = <<-args[2][2], args[2][1]>>
           /\ args[3] = 0 => ret[1] = args[2]
    /\ last = "rotate(rotate)" => ret[1] = args[2]

C8_Witness ==
    /\ last = "rotate"
    /\ args[2] = <<1, 0>> /\ args[3] = 90
    /\ ret[1] = <<0, 1>>

---------------------------------------------------------------------------
(* Millimetres and pcbnew's internal units *)

MM_SCALE == 1000
IU_PER_MM == 1000000

\* a whole number of mm, and a number of mm as the wrappers receive it
mm(x) == x * MM_SCALE
MM(v) == <<"mm", v>>

\* pcbnew.FromMM and pcbnew.ToMM
FromMM(v) == v * (IU_PER_MM \div MM_SCALE)
ToMM(iu) == iu \div (IU_PER_MM \div MM_SCALE)

_from_mm(val) == FromMM(val)
_point_mm(x, y) == <<FromMM(x), FromMM(y)>>
_size_mm(x, y) == <<FromMM(x), FromMM(y)>>

\* a width or size in internal units, and one taken from the board's
\* design settings
IU(v) == <<"iu", v>>
Setting(name) == <<"setting", name>>

\* the outcome of an add_* call: the exception raised if any, the objects
\* handed to Add in order, and the value returned
Outcome(e, new, value) == [raised |-> e, new |-> new, value |-> value]

---------------------------------------------------------------------------
(* Board *)

\* Board.add_track_segment(start, end, layer, width)
Board_add_track_segment(start, end, layer, width) ==
    LET w == IF width = None THEN Setting("CurrentTrackWidth")
             ELSE IU(_from_mm(width[1]))
        l == _get_layer(layer)
    IN  IF l.raised # "none" THEN Outcome(l.raised, <<>>, None)
        ELSE LET t == [cls |-> "TRACK", Width |-> w, Layer |-> l.value,
                       Start |-> _point_mm(start[1], start[2]),
                       End |-> _point_mm(end[1], end[2])]
             IN  Outcome("none", <<t>>, Some(t))

\* Board.add_track(coords, layer, width): a segment from each coordinate
\* to the next; a segment that raises ends the loop, those before it stay
RECURSIVE Board_add_track_from(_, _, _, _, _)
Board_add_track_from(coords, n, layer, width, added) ==
    IF n > Len(coords) - 1 THEN Outcome("none", added, None)
    ELSE LET r == Board_add_track_segment(coords[n], coords[n + 1], layer, width)
         IN  IF r.raised # "none" THEN Outcome(r.raised, added, None)
             ELSE Board_add_track_from(coords, n + 1, layer, width, added \o r.new)

Board_add_track(coords, layer, width) ==
    Board_add_track_from(coords, 1, layer, width, <<>>)

\* Board.add_track_via(coord, layer_pair, size, drill)
Board_add_track_via(coord, layer_pair, size, drill) ==
    LET s == IF size = None THEN Setting("CurrentViaSize") ELSE IU(_from_mm(size[1]))
        d == IF drill = None THEN Setting("CurrentViaDrill") ELSE IU(_from_mm(drill[1]))
        l1 == _get_layer(layer_pair[1])
        l2 == _get_layer(layer_pair[2])
    IN  IF l1.raised # "none" THEN Outcome(l1.raised, <<>>, None)
        ELSE IF l2.raised # "none" THEN Outcome(l2.raised, <<>>, None)
        ELSE LET via == [cls |-> "VIA", Width |-> s,
                         End |-> _point_mm(coord[1], coord[2]),
                         Start |-> _point_mm(coord[1], coord[2]),
                         LayerPair |-> <<l1.value, l2.value>>, Drill |-> d]
             IN  Outcome("none", <<via>>, Some(via))

\* a DRAWSEGMENT or EDGE_MODULE: SetStart and SetCenter set Start, SetEnd
\* and SetArcStart set End, as the host stores them
Segment(cls, shape, start, end, angle, layer, width) ==
    [cls |-> cls, Shape |-> shape, Start |-> start, End |-> end,
     Angle |-> angle, Layer |-> layer, Width |-> width]

\* add_line(start, end, layer, width), of Board (cls DRAWSEGMENT) and of
\* Module (cls EDGE_MODULE)
add_line(cls, start, end, layer, width) ==
    LET l == _get_layer(layer)
    IN  IF l.raised # "none" THEN Outcome(l.raised, <<>>, None)
        ELSE LET a == Segment(cls, "S_SEGMENT", _point_mm(start[1], start[2]),
                              _point_mm(end[1], end[2]), 0, l.value,
                              IU(_from_mm(width)))
             IN  Outcome("none", <<a>>, Some(a))

\* add_polyline(coords, layer, width): a line from each coordinate to the next
RECURSIVE add_polyline_from(_, _, _, _, _, _)
add_polyline_from(cls, coords, n, layer, width, added) ==
    IF n > Len(coords) - 1 THEN Outcome("none", added, None)
    ELSE LET r == add_line(cls, coords[n], coords[n + 1], layer, width)
         IN  IF r.raised # "none" THEN Outcome(r.raised, added, None)
             ELSE add_polyline_from(cls, coords, n + 1, layer, width, added \o r.new)

add_polyline(cls, coords, layer, width) ==
    add_polyline_from(cls, coords, 1, layer, width, <<>>)

\* add_circle(center, radius, layer, width)
add_circle(cls, center, radius, layer, width) ==
    LET l == _get_layer(layer)
    IN  IF l.raised # "none" THEN Outcome(l.raised, <<>>, None)
        ELSE LET a == Segment(cls, "S_CIRCLE", _point_mm(center[1], center[2]),
                              _point_mm(center[1], center[2] + radius), 0,
                              l.value, IU(_from_mm(width)))
             IN  Outcome("none", <<a>>, Some(a))

\* add_arc(center, radius, start_angle, stop_angle, layer, width):
\* start_coord = radius * e^(i*(start_angle-90)), then SetCenter(center),
\* SetArcStart(start_coord), SetAngle((stop_angle - start_angle)*10)
add_arc(cls, center, radius, start_angle, stop_angle, layer, width) ==
    LET start_coord == _point_mm(radius * CosDeg(start_angle - 90),
                                 radius * SinDeg(start_angle - 90))
        angle == stop_angle - start_angle
        l == _get_layer(layer)
    IN  IF l.raised # "none" THEN Outcome(l.raised, <<>>, None)
        ELSE LET a == Segment(cls, "S_ARC", _point_mm(center[1], center[2]),
                              start_coord, angle * 10, l.value,
                              IU(_from_mm(width)))
             IN  Outcome("none", <<a>>, Some(a))

---------------------------------------------------------------------------
(* Pad: each property setter gives the exception raised, if any, and the   *)
(* D_PAD as the setter leaves it.                                          *)

_pad_types ==
    [s \in {"standard", "smd", "conn", "hole_not_plated"} |->
        CASE s = "standard" -> "PAD_STANDARD"
          [] s = "smd" -> "PAD_SMD"
          [] s = "conn" -> "PAD_CONN"
          [] s = "hole_not_plated" -> "PAD_HOLE_NOT_PLATED"]

\* {s:n for n, s in _pad_types.iteritems()}: id -> name
_pad_types_id ==
    [i \in Range(_pad_types) |-> CHOOSE s \in DOMAIN _pad_types : _pad_types[s] = i]

_shapes ==
    [s \in {"circle", "rect", "oval", "trapezoid"} |->
        CASE s = "circle" -> "PAD_CIRCLE"
          [] s = "rect" -> "PAD_RECT"
          [] s = "oval" -> "PAD_OVAL"
          [] s = "trapezoid" -> "PAD_TRAPEZOID"]

_shapes_id ==
    [i \in Range(_shapes) |-> CHOOSE s \in DOMAIN _shapes : _shapes[s] = i]

Set(p) == [raised |-> "none", pad |-> p]
SetRaise(e, p) == [raised |-> e, pad |-> p]

\* Pad.type, getter and setter
Pad_type(p) == _pad_types_id[p.Attribute]

Pad_type_set(p, value) ==
    IF value \in DOMAIN _pad_types
    THEN Set([p EXCEPT !.Attribute = _pad_types[value]])
    ELSE SetRaise("KeyError", p)

\* Pad.shape, getter and setter
Pad_shape(p) == _shapes_id[p.Shape]

Pad_shape_set(p, value) ==
    IF value \in DOMAIN _shapes
    THEN Set([p EXCEPT !.Shape = _shapes[value]])
    ELSE SetRaise("KeyError", p)

\* Pad.size setter: one value for a circle, a pair otherwise; float() of a
\* tuple and indexing a number raise TypeError
Pad_size_set(p, size) ==
    IF Pad_shape(p) = "circle"
    THEN IF size[1] = "mm"
         THEN Set([p EXCEPT !.Size = _size_mm(size[2], size[2])])
         ELSE SetRaise("TypeError", p)
    ELSE IF size[1] = "mm" THEN SetRaise("TypeError", p)
         ELSE IF Len(size[2]) < 2 THEN SetRaise("IndexError", p)
         ELSE Set([p EXCEPT !.Size = _size_mm(size[2][1], size[2][2])])

\* Pad.name setter
Pad_name_set(p, value) == Set([p EXCEPT !.PadName = value])

\* Pad.position setter
Pad_position_set(p, position) ==
    Set([p EXCEPT !.Position = _point_mm(position[1], position[2])])

\* Pad.layers, getter and setter
Pad_layers(p) == _from_LayerSet(p.LayerSet)

Pad_layers_set(p, value) ==
    IF value = None
    THEN LET default_masks ==
                 [s \in DOMAIN _pad_types |->
                     CASE s = "standard" -> StandardMask
                       [] s = "smd" -> SMDMask
                       [] s = "conn" -> ConnSMDMask
                       [] s = "hole_not_plated" -> UnplatedHoleMask]
         IN  Set([p EXCEPT !.LayerSet = default_masks[Pad_type(p)]])
    ELSE LET r == _to_LayerSet(value[1])
         IN  IF r.raised # "none" THEN SetRaise(r.raised, p)
             ELSE Set([p EXCEPT !.LayerSet = r.lset[1]])

\* Pad.drill getter: the drill size in mm, a pair for an oblong drill and
\* its first component otherwise; None for a pad without a hole
Pad_drill(p) ==
    IF Pad_type(p) \in {"standard", "hole_not_plated"}
    THEN IF p.DrillShape = "PAD_DRILL_OBLONG"
         THEN Some(PySeq(<<ToMM(p.DrillSize[1]), ToMM(p.DrillSize[2])>>))
         ELSE Some(MM(ToMM(p.DrillSize[1])))
    ELSE None

\* Pad.drill setter: a value with __getitem__ sets the drill shape to
\* oblong and the two sizes; any other value sets both sizes and leaves
\* the drill shape as it is
Pad_drill_set(p, drill) ==
    IF Pad_type(p) \in {"standard", "hole_not_plated"}
    THEN IF drill[1] = "seq"
         THEN IF Len(drill[2]) < 2 THEN SetRaise("IndexError", [p EXCEPT !.DrillShape = "PAD_DRILL_OBLONG"])
              ELSE Set([p EXCEPT !.DrillShape = "PAD_DRILL_OBLONG",
                                 !.DrillSize = _size_mm(drill[2][1], drill[2][2])])
         ELSE Set([p EXCEPT !.DrillSize = _size_mm(drill[2], drill[2])])
    ELSE Set(p)

\* the setters of add_pad in turn, from step n on: the first that raises
\* ends the call
PadSetter(n, p, a) ==
    CASE n = 1 -> Pad_type_set(p, a.pad_type)
      [] n = 2 -> Pad_shape_set(p, a.shape)
      [] n = 3 -> Pad_size_set(p, a.size)
      [] n = 4 -> Pad_name_set(p, a.name)
      [] n = 5 -> Pad_position_set(p, a.position)
      [] n = 6 -> Pad_layers_set(p, a.layers)

RECURSIVE PadSetters(_, _, _)
PadSetters(n, p, a) ==
    IF n > 6 THEN Set(p)
    ELSE LET r == PadSetter(n, p, a)
         IN  IF r.raised # "none" THEN r ELSE PadSetters(n + 1, r.pad, a)

\* Module.add_pad(position, size, name, pad_type, shape, drill, layers),
\* a being the record of its arguments: a new D_PAD, then type, shape,
\* size, name, position and layers are set, then the pad is added
Module_add_pad(a) ==
    LET r == PadSetters(1, NewPad, a)
    IN  IF r.raised # "none" THEN Outcome(r.raised, <<>>, None)
        ELSE Outcome("none", <<r.pad>>, Some(r.pad))

---------------------------------------------------------------------------
(* Calls of the add_* methods of a Board and of a Module of it.  A call    *)
(* appends what it handed to Add to the board or the module, also when it *)
(* raises afterwards.                                                      *)

Adds(name, a, r, target) ==
    /\ Len(board) + Len(module) + Len(r.new) <= MaxItems
    /\ last' = name
    /\ args' = a
    /\ raised' = r.raised
    /\ ret' = r.value
    /\ board' = IF target = "board" THEN board \o r.new ELSE board
    /\ module' = IF target = "module" THEN module \o r.new ELSE module
    /\ layer_list' = <<>>
    /\ hexset' = <<>>
    /\ lset' = None
    /\ UnchangedTables

Call_Board_add_track_segment(a) ==
    /\ \E r \in {Board_add_track_segment(a.start, a.end, a.layer, a.width)} :
           Adds("Board.add_track_segment", a, r, "board")
    /\ UNCHANGED pad

Call_Board_add_track(a) ==
    /\ \E r \in {Board_add_track(a.coords, a.layer, a.width)} :
           Adds("Board.add_track", a, r, "board")
    /\ UNCHANGED pad

Call_Board_add_track_via(a) ==
    /\ \E r \in {Board_add_track_via(a.coord, a.layer_pair, a.size, a.drill)} :
           Adds("Board.add_track_via", a, r, "board")
    /\ UNCHANGED pad

Call_Board_add_line(a) ==
    /\ \E r \in {add_line("DRAWSEGMENT", a.start, a.end, a.layer, a.width)} :
           Adds("Board.add_line", a, r, "board")
    /\ UNCHANGED pad

Call_Board_add_polyline(a) ==
    /\ \E r \in {add_polyline("DRAWSEGMENT", a.coords, a.layer, a.width)} :
           Adds("Board.add_polyline", a, r, "board")
    /\ UNCHANGED pad

Call_Board_add_circle(a) ==
    /\ \E r \in {add_circle("DRAWSEGMENT", a.center, a.radius, a.layer, a.width)} :
           Adds("Board.add_circle", a, r, "board")
    /\ UNCHANGED pad

Call_Board_add_arc(a) ==
    /\ \E r \in {add_arc("DRAWSEGMENT", a.center, a.radius, a.start_angle,
                         a.stop_angle, a.layer, a.width)} :
           Adds("Board.add_arc", a, r, "board")
    /\ UNCHANGED pad

Call_Module_add_line(a) ==
    /\ \E r \in {add_line("EDGE_MODULE", a.start, a.end, a.layer, a.width)} :
           Adds("Module.add_line", a, r, "module")
    /\ UNCHANGED pad

Call_Module_add_polyline(a) ==
    /\ \E r \in {add_polyline("EDGE_MODULE", a.coords, a.layer, a.width)} :
           Adds("Module.add_polyline", a, r, "module")
    /\ UNCHANGED pad

Call_Module_add_circle(a) ==
    /\ \E r \in {add_circle("EDGE_MODULE", a.center, a.radius, a.layer, a.width)} :
           Adds("Module.add_circle", a, r, "module")
    /\ UNCHANGED pad

Call_Module_add_arc(a) ==
    /\ \E r \in {add_arc("EDGE_MODULE", a.center, a.radius, a.start_angle,
                         a.stop_angle, a.layer, a.width)} :
           Adds("Module.add_arc", a, r, "module")
    /\ UNCHANGED pad

\* the Pad that add_pad returns wraps the D_PAD it added last to the module
Call_Module_add_pad(a) ==
    \E r \in {Module_add_pad(a)} :
        /\ Adds("Module.add_pad", a, r, "module")
        /\ pad' = IF r.raised = "none" THEN Len(module) + 1 ELSE pad

---------------------------------------------------------------------------
(* The arguments the add_* methods are called with *)

SilkLayers == {PyStr("F.SilkS"), UnknownName}

TrackSegmentArgs ==
    {[start |-> <<mm(30), mm(26)>>, end |-> <<mm(30), mm(50)>>,
      layer |-> l, width |-> w] :
        l \in {PyStr("F.Cu"), UnknownName}, w \in {None, Some(250)}}

TrackArgs ==
    {[coords |-> c, layer |-> l, width |-> None] :
        c \in {<<<<mm(60), mm(80)>>>>,
               <<<<mm(60), mm(80)>>, <<mm(80), mm(80)>>>>,
               <<<<mm(30), mm(26)>>, <<mm(30), mm(50)>>, <<mm(60), mm(80)>>>>},
        l \in {PyStr("B.Cu"), UnknownName}}

ViaArgs ==
    {[coord |-> <<mm(60), mm(80)>>, layer_pair |-> lp, size |-> None, drill |-> None] :
        lp \in {<<PyStr("B.Cu"), PyStr("F.Cu")>>, <<PyStr("B.Cu"), UnknownName>>,
                <<UnknownName, PyStr("F.Cu")>>}}
    \cup {[coord |-> <<mm(60), mm(80)>>,
           layer_pair |-> <<PyStr("B.Cu"), PyStr("F.Cu")>>,
           size |-> Some(600), drill |-> Some(400)]}

LineArgs ==
    {[start |-> <<mm(-8), 0>>, end |-> <<mm(8), 0>>, layer |-> l, width |-> 200] :
        l \in SilkLayers}

PolylineArgs ==
    {[coords |-> c, layer |-> l, width |-> 150] :
        c \in {<<<<mm(20), mm(20)>>>>,
               <<<<mm(20), mm(20)>>, <<mm(20), mm(100)>>>>,
               <<<<mm(20), mm(20)>>, <<mm(20), mm(100)>>, <<mm(120), mm(100)>>>>},
        l \in {PyStr("Edge.Cuts"), UnknownName}}

CircleArgs ==
    {[center |-> <<mm(30), mm(30)>>, radius |-> mm(8), layer |-> l, width |-> 150] :
        l \in SilkLayers}

ArcArgs ==
    {[center |-> c, radius |-> mm(8), start_angle |-> s, stop_angle |-> 90,
      layer |-> PyStr("F.SilkS"), width |-> 200] :
        c \in {<<0, 0>>, <<mm(30), mm(30)>>}, s \in {-90, 0}}
    \cup {[center |-> <<0, 0>>, radius |-> mm(8), start_angle |-> -90,
           stop_angle |-> 90, layer |-> UnknownName, width |-> 200]}

BoardPadArgs ==
    {[position |-> <<mm(4), mm(-3)>>, size |-> MM(mm(2)), name |-> "",
      pad_type |-> "standard", shape |-> "circle", drill |-> MM(mm(1)),
      layers |-> ls] :
        ls \in {None, Some(<<PyStr("B.Cu"), PyStr("F.Cu")>>),
                Some(<<PyStr("F.Cu"), UnknownName>>)}}

Call_get_layer_small == \E s \in {PyStr("F.Cu"), UnknownName} : Call_get_layer(s)

Call_to_LayerSet_small ==
    \E ls \in {<<>>, <<PyStr("F.Cu")>>, <<PyStr("F.Cu"), UnknownName>>} :
        Call_to_LayerSet(ls)

NextBoard ==
    \/ \E a \in TrackSegmentArgs : Call_Board_add_track_segment(a)
    \/ \E a \in TrackArgs : Call_Board_add_track(a)
    \/ \E a \in ViaArgs : Call_Board_add_track_via(a)
    \/ \E a \in LineArgs : Call_Board_add_line(a)
    \/ \E a \in PolylineArgs : Call_Board_add_polyline(a)
    \/ \E a \in CircleArgs : Call_Board_add_circle(a)
    \/ \E a \in ArcArgs : Call_Board_add_arc(a)
    \/ \E a \in LineArgs : Call_Module_add_line(a)
    \/ \E a \in PolylineArgs : Call_Module_add_polyline(a)
    \/ \E a \in CircleArgs : Call_Module_add_circle(a)
    \/ \E a \in ArcArgs : Call_Module_add_arc(a)
    \/ \E a \in BoardPadArgs : Call_Module_add_pad(a)
    \/ Call_get_layer_small
    \/ Call_to_LayerSet_small

SpecBoard == Init /\ [][NextBoard]_vars

---------------------------------------------------------------------------
(* Claims about the add_* methods *)

LayerCalls ==
    {"Board.add_track_segment", "Board.add_track", "Board.add_line",
     "Board.add_polyline", "Board.add_circle", "Board.add_arc",
     "Module.add_line", "Module.add_polyline", "Module.add_circle",
     "Module.add_arc"}

\* the layer keys a call was given
LayerArgsOf(call, a, ll) ==
    CASE call \in LayerCalls -> {a.layer}
      [] call = "Board.add_track_via" -> ToSet(a.layer_pair)
      [] call = "Module.add_pad" -> IF a.layers = None THEN {} ELSE ToSet(a.layers[1])
      [] call = "_get_layer" -> {a}
      [] call = "_to_LayerSet" -> ToSet(ll)
      [] OTHER -> {}

\* whether the call comes to look a layer up: a track or polyline of fewer
\* than two coordinates has no segment
LooksUp(call, a) ==
    IF call \in {"Board.add_track", "Board.add_polyline", "Module.add_polyline"}
    THEN Len(a.coords) >= 2
    ELSE TRUE

\* C4: a call given a layer name that the table does not hold raises
\* KeyError as soon as it looks the name up, returns no layer id, layer set
\* or object, and leaves the board, the module and the tables as they were.
C4_UnknownLayerNoEffect ==
    [][LET unknown == \E k \in LayerArgsOf(last', args', layer_list') :
                          k \notin DOMAIN layer_dict
       IN  /\ unknown =>
                 /\ board' = board
                 /\ module' = module
                 /\ ret' = None
                 /\ lset' = None
                 /\ LooksUp(last', args') => raised' = "KeyError"
           /\ UnchangedTables]_vars

C4_Witness ==
    /\ last = "Board.add_line"
    /\ args.layer = UnknownName
    /\ raised = "KeyError"
    /\ Len(board) = 1
    /\ Len(module) = 1

\* C6: the arc that add_arc hands to the host starts at
\* center + radius * (cos t, sin t), t = start_angle - 90 degrees, and spans
\* (stop_angle - start_angle) * 10.
C6_ArcStart ==
    (last \in {"Board.add_arc", "Module.add_arc"} /\ raised = "none") =>
        /\ ret[1].End =
               _point_mm(args.center[1] + args.radius * CosDeg(args.start_angle - 90),
                         args.center[2] + args.radius * SinDeg(args.start_angle - 90))
        /\ ret[1].Angle = (args.stop_angle - args.start_angle) * 10

---------------------------------------------------------------------------
(* Calls of add_pad and of the properties of the Pad it returned *)

\* a property setter of the Pad: the D_PAD is left as the setter left it
PadSets(name, a, r) ==
    /\ pad # 0
    /\ last' = name
    /\ args' = a
    /\ raised' = r.raised
    /\ ret' = None
    /\ module' = [module EXCEPT ![pad] = r.pad]
    /\ UNCHANGED <<board, pad>>
    /\ UnchangedLayerCall /\ UnchangedTables

\* a property getter of the Pad; Python's None is returned as no value
PadGets(name, v) ==
    /\ pad # 0
    /\ last' = name
    /\ args' = <<>>
    /\ raised' = "none"
    /\ ret' = v
    /\ UNCHANGED <<board, module, pad>>
    /\ UnchangedLayerCall /\ UnchangedTables

\* pad.type = value
Call_Pad_type_set(value) ==
    pad # 0 /\ \E r \in {Pad_type_set(module[pad], value)} : PadSets("Pad.type=", value, r)

\* pad.drill = drill
Call_Pad_drill_set(drill) ==
    pad # 0 /\ \E r \in {Pad_drill_set(module[pad], drill)} : PadSets("Pad.drill=", drill, r)

\* pad.drill
Call_Pad_drill ==
    pad # 0 /\ PadGets("Pad.drill", Pad_drill(module[pad]))

\* pad.layers = value
Call_Pad_layers_set(value) ==
    pad # 0 /\ \E r \in {Pad_layers_set(module[pad], value)} : PadSets("Pad.layers=", value, r)

\* pad.layers
Call_Pad_layers ==
    /\ pad # 0
    /\ \E r \in {Pad_layers(module[pad])} :
           /\ last' = "Pad.layers"
           /\ args' = <<>>
           /\ raised' = r.raised
           /\ ret' = IF r.raised = "none" THEN Some(r.value) ELSE None
    /\ UNCHANGED <<board, module, pad>>
    /\ UnchangedLayerCall /\ UnchangedTables

PadTypes == {"standard", "smd", "conn", "hole_not_plated"}
Drills == {MM(mm(1)), PySeq(<<mm(1), mm(2)>>)}

PadArgs ==
    {[position |-> <<mm(-4), mm(-3)>>, size |-> MM(mm(2)), name |-> "",
      pad_type |-> ty, shape |-> "circle", drill |-> d, layers |-> ls] :
        ty \in PadTypes, d \in Drills,
        ls \in {None, Some(<<PyStr("B.Cu"), PyStr("F.Cu")>>)}}
    \cup {[position |-> <<mm(1), mm(-4)>>, size |-> PySeq(<<250, 1200>>),
           name |-> "4", pad_type |-> "smd", shape |-> "rect",
           drill |-> MM(mm(1)), layers |-> None]}

\* one pad is followed: add_pad on a module without pads, then the
\* properties of the Pad it returned, in any order
NextPad ==
    \/ (pad = 0 /\ \E a \in PadArgs : Call_Module_add_pad(a))
    \/ \E value \in PadTypes \cup {"through_hole"} : Call_Pad_type_set(value)
    \/ \E drill \in Drills : Call_Pad_drill_set(drill)
    \/ Call_Pad_drill
    \/ \E value \in {None, Some(<<PyStr("F.Cu"), PyStr("F.Mask")>>),
                     Some(<<UnknownName>>)} : Call_Pad_layers_set(value)
    \/ Call_Pad_layers

SpecPad == Init /\ [][NextPad]_vars

---------------------------------------------------------------------------
(* Claims about the pads *)

DefaultMask(ty) ==
    CASE ty = "standard" -> StandardMask
      [] ty = "smd" -> SMDMask
      [] ty = "conn" -> ConnSMDMask
      [] ty = "hole_not_plated" -> UnplatedHoleMask

\* C9: the pad that add_pad added carries every argument: type, shape,
\* size, name, position, layers (the default mask of its type for None) and,
\* for the types 'standard' and 'hole_not_plated', the drill.
C9_PadCarriesArguments ==
    (last = "Module.add_pad" /\ raised = "none") =>
        LET p == module[pad]
        IN  /\ ret = Some(p)
            /\ Pad_type(p) = args.pad_type
            /\ Pad_shape(p) = args.shape
            /\ p.Size = IF args.size[1] = "mm"
                        THEN _size_mm(args.size[2], args.size[2])
                        ELSE _size_mm(args.size[2][1], args.size[2][2])
            /\ p.PadName = args.name
            /\ p.Position = _point_mm(args.position[1], args.position[2])
            /\ p.LayerSet = IF args.layers = None THEN DefaultMask(args.pad_type)
                            ELSE {layer_dict[k] : k \in ToSet(args.layers[1])}
            /\ args.pad_type \in {"standard", "hole_not_plated"} =>
                   Pad_drill(p) = Some(args.drill)

\* C10: pad.drill read right after pad.drill = d gives d as it was given on
\* a pad of type 'standard' or 'hole_not_plated', whatever was set before;
\* on a pad of another type the setter changes nothing and the getter
\* gives None.
C10_DrillGetAfterSet ==
    [][/\ (last = "Pad.drill=" /\ raised = "none" /\ last' = "Pad.drill") =>
              IF Pad_type(module[pad]) \in {"standard", "hole_not_plated"}
              THEN ret' = Some(args)
              ELSE ret' = None
       /\ (last' = "Pad.drill=" /\ Pad_type(module[pad]) \in {"smd", "conn"}) =>
              module' = module]_vars

====
